---- MODULE Spec2Model ----
(***************************************************************************)
(* State-machine model of Arduino/car.ino: the round-robin ultrasonic      *)
(* acquisition scheduler in loop(), the Timer2 completion handler          *)
(* echoCheck(), the serial reporter writeDistanceData() and the command    *)
(* decode / motor actuation path.                                          *)
(*                                                                         *)
(* loop() is split at the places where the Timer2 interrupt can preempt it *)
(* with a visible effect; pc names the statement that executes next.  The  *)
(* NewPing driver and the Arduino core are libraries the sketch links      *)
(* against: they are modelled by their contract at the sketch's call sites *)
(* (one Timer2 shared by all sensors, ping_timer() enabling its interrupt, *)
(* timer_stop() disabling it, check_timer() polling the echo line of the   *)
(* sensor it is called on; Serial.print(unsigned long) printing decimal    *)
(* digits and Serial.println() printing CR LF).                            *)
(***************************************************************************)
EXTENDS Integers, Naturals, Sequences, FiniteSets, TLC

(* ---------------------------------------------------------------- *)
(* Program constants                                                 *)
(* ---------------------------------------------------------------- *)
PING_INTERVAL == 33
NUM_SENSORS == 3
FIRST_PING_DELAY == 75
US_ROUNDTRIP_CM == 57
MAX_DISTANCE == 200
MOVE_FORWARD == 0
MOVE_BACKWARD == 1
TURN_LEFT == 1
TURN_RIGHT == 0

\* ASCII codes of the bytes the reporter emits.
TAB == 9
LF == 10
CR == 13
ASCII_ZERO == 48

(* ---------------------------------------------------------------- *)
(* Bounds of the model                                               *)
(* ---------------------------------------------------------------- *)
\* millis() stops advancing once it has reached MaxTime.
MaxTime == 274
\* A clock skip: a jump of millis() between two reads of it that is longer
\* than PING_INTERVAL and leaves several deadlines due at once.
SkipAhead == 40
\* Ticks of millis() are followed one by one from Margin milliseconds before
\* the earliest deadline on; the stretch before that, in which no read of
\* millis() can find a deadline due, passes in one step.
Margin == 2
\* Number of clock skips in one run.
MaxSkips == 1
\* Width in bits of the model's unsigned long (32 on the AVR): millis() and
\* pingTimer[] wrap modulo 2^ClockBits.  MaxTime plus one full cycle stays
\* below 2^ClockBits, so no counter wraps before the clock stops.
ClockBits == 9
\* Largest direction argument handed to the actuation functions directly.
MaxDir == 3
\* A sensor is followed through at most MaxArms pings; no run below MaxTime
\* without a wrapped deadline needs that many.
MaxArms == 4
\* A run that crosses the wrap of a deadline starts (setup() runs) WrapLead
\* milliseconds before millis() wraps.
WrapLead == 250
\* Length in milliseconds, and number of clock skips, of the run in which a
\* skip comes back one cycle after the first.
RecurTime == 212
RecurSkips == 2
\* Length in milliseconds of the run that is followed from setup() until a
\* deadline has wrapped: with ClockBits = 9 the fifth deadline of sensor 2,
\* 537, is the first that does, when the sensor is pinged at 438.
LongTime == 440

Sensors == 0 .. (NUM_SENSORS - 1)
\* Echo flight times (microseconds) a completed ping can report.
EchoTimes == {40, 7000}
\* Milliseconds of millis() after which a ping has certainly timed out: the
\* driver waits (MAX_DISTANCE + 1) * US_ROUNDTRIP_CM microseconds for an echo.
EchoWindow == ((MAX_DISTANCE + 1) * US_ROUNDTRIP_CM) \div 1000 + 2
\* How millis() has moved between two consecutive reads of it by loop().
ClockMoves == {"none", "tick", "skip"}
HIGH == TRUE
LOW == FALSE
\* The six command input lines.
InputPins == {"SPEED_INPUT2", "SPEED_INPUT1", "SPEED_INPUT0",
              "TURN_INPUT2", "TURN_INPUT1", "TURN_INPUT0"}
AllPinStates == [InputPins -> BOOLEAN]
\* Pin states sampled while the scheduler is explored.
PinSamples == {p \in AllPinStates :
                 \/ \A n \in InputPins : p[n] = LOW
                 \/ /\ p["SPEED_INPUT2"] = HIGH /\ p["SPEED_INPUT1"] = LOW
                    /\ p["SPEED_INPUT0"] = HIGH /\ p["TURN_INPUT2"] = LOW
                    /\ p["TURN_INPUT1"] = HIGH /\ p["TURN_INPUT0"] = HIGH}
Percents == {0, 33, 67, 100}

\* Pin numbers.  A0..A5 are the numbers the Arduino core gives the analog
\* pins of an ATmega328 board; on every board they differ from 4..11.
FRONT_US == 9
LEFT_US == 8
RIGHT_US == 7
A0 == 14
A1 == 15
A2 == 16
A3 == 17
A4 == 18
A5 == 19
SPEED_INPUT2 == A0
SPEED_INPUT1 == A1
SPEED_INPUT0 == A2
SPEED_MOTOR_PIN2 == 11
SPEED_MOTOR_PIN1 == 10
SPEED_MOTOR_PIN0 == 9
TURN_INPUT2 == A3
TURN_INPUT1 == A4
TURN_INPUT0 == A5
TURN_MOTOR_PIN2 == 6
TURN_MOTOR_PIN1 == 5
TURN_MOTOR_PIN0 == 4
\* sonar[s] triggers and listens on one pin.
SonarPin(s) == <<FRONT_US, LEFT_US, RIGHT_US>>[s + 1]
\* The lines writeSpeedData() writes: one analogWrite, two digitalWrite.
SpeedMotorPins == {SPEED_MOTOR_PIN2, SPEED_MOTOR_PIN1, SPEED_MOTOR_PIN0}
\* The lines writeTurnData() writes.
TurnMotorPins == {TURN_MOTOR_PIN2, TURN_MOTOR_PIN1, TURN_MOTOR_PIN0}
\* The lines readSpeedInput() and readTurnInput() read.
SpeedInputPins == {SPEED_INPUT2, SPEED_INPUT1, SPEED_INPUT0}
TurnInputPins == {TURN_INPUT2, TURN_INPUT1, TURN_INPUT0}

VARIABLES
  now,            \* the value millis() returned last
  pingTimer,      \* pingTimer[NUM_SENSORS]
  data,           \* data[NUM_SENSORS]
  currentSensor,  \* currentSensor
  pc,             \* the statement of loop() that executes next
  i,              \* the for-loop index of loop()
  k,              \* the for-loop index of writeDistanceData()
  armed,          \* sensors whose ping_timer() request keeps Timer2 enabled
  req,            \* per sensor: state of its last ping (idle/waiting/echoed)
  pingAt,         \* per sensor: millis() when its ping in flight was triggered (0: none)
  serial,         \* every byte written to the UART so far
  pins,           \* levels of the six command input lines
  cmd,            \* (direction, percent) last passed to the actuation functions
  motor,          \* duty and levels on the actuator output lines (written: driven by a call)
  nSel,           \* history: per sensor, times loop() made it currentSensor
  nReports,       \* history: calls of writeDistanceData()
  fresh,          \* history: per sensor, distance stored since its last reset
  nominal,        \* history: no read of millis() found two deadlines due
  nSkips,         \* history: clock skips so far
  prompt,         \* history: every sensor has been polled at every clock tick
  sinceTick,      \* history: reads of millis() since it last advanced (capped at 2)
  boot,           \* history: the value millis() had when setup() ran
  armedInPass,    \* history: sensors pinged so far in the current pass of loop()
  span,           \* milliseconds after setup() the run is followed for
  mark            \* history: the state at the end of the pass with the first clock skip

vars == <<now, pingTimer, data, currentSensor, pc, i, k, armed, req, pingAt,
          serial, pins, cmd, motor, nSel, nReports, fresh, nominal, nSkips, prompt, sinceTick,
          boot, armedInPass, span, mark>>

schedVars == <<now, pingTimer, data, currentSensor, i, k, armed, req, pingAt,
               serial, nSel, nReports, fresh, nominal, nSkips, prompt, sinceTick,
               boot, armedInPass, span, mark>>
ioVars == <<pins, cmd, motor>>

NoCmd == [speed |-> <<0, 0>>, turn |-> <<0, 0>>]
\* Output lines after initSpeedPins() / initTurnPins(): nothing driven yet.
Undriven == [written |-> FALSE, duty |-> 0, pin1 |-> LOW, pin0 |-> LOW]
NoMotor == [speed |-> Undriven, turn |-> Undriven]

\* fresh[s] is <<>> or holds the one distance stored since the last reset.
NoFresh == <<>>
\* mark is <<>> or holds the one state kept.
NoMark == <<>>
InFlight == {"waiting", "echoed"}

(* ---------------------------------------------------------------- *)
(* Pure functions                                                    *)
(* ---------------------------------------------------------------- *)
\* Arithmetic on unsigned long.
ULONG_MODULUS == 2 ^ ClockBits
ULong(x) == x % ULONG_MODULUS

\* Print::print(unsigned long): the decimal digits, most significant first,
\* produced by repeated division by 10 (at least one digit).
RECURSIVE PrintNumber(_)
PrintNumber(n) ==
  IF n < 10 THEN <<ASCII_ZERO + n>>
            ELSE Append(PrintNumber(n \div 10), ASCII_ZERO + (n % 10))

\* ping_result / US_ROUNDTRIP_CM in echoCheck().
EchoDistance(pingResult) == pingResult \div US_ROUNDTRIP_CM

\* readSpeedInput() / readTurnInput(): pack three line levels into a code.
ReadInput(line2, line1, line0) ==
  (IF line2 = HIGH THEN 4 ELSE 0) + (IF line1 = HIGH THEN 2 ELSE 0)
    + (IF line0 = HIGH THEN 1 ELSE 0)

readSpeedInput(p) ==
  ReadInput(p["SPEED_INPUT2"], p["SPEED_INPUT1"], p["SPEED_INPUT0"])

readTurnInput(p) ==
  ReadInput(p["TURN_INPUT2"], p["TURN_INPUT1"], p["TURN_INPUT0"])

\* Mutant of DecodePercent: a linear formula instead of the table.
DecodePercent_Linear(input) == ((input % 4) * 100) \div 3

\* The switch on (input & 0x03) in loop().
DecodePercent(input) ==
  LET level == input % 4
  IN  IF level = 1 THEN 33
      ELSE IF level = 2 THEN 67
      ELSE IF level = 3 THEN 100
      ELSE 0

\* input >> 2 in loop().
DecodeDirection(input) == input \div 4

\* Width of the significand of a double.  The sketch runs on an ATmega (its
\* ranging uses Timer2), where avr-gcc's double is IEEE-754 binary32.
DOUBLE_SIG_BITS == 24

\* n / d rounded to the nearest integer, ties to even.
RoundDiv(n, d) ==
  LET q == n \div d
      r == n % d
  IN  IF 2 * r > d \/ (2 * r = d /\ q % 2 = 1) THEN q + 1 ELSE q

\* The number of low bits a positive integer loses to fit the significand.
RECURSIVE SigShift(_)
SigShift(n) == IF n < 2 ^ DOUBLE_SIG_BITS THEN 0 ELSE 1 + SigShift(n \div 2)

\* The literal 2.55 as a double is Literal_2_55 * 2^-LiteralScale: 2.55 lies in
\* [2, 4), so its significand is 255/100 * 2^(DOUBLE_SIG_BITS - 2) rounded.
LiteralScale == DOUBLE_SIG_BITS - 2
Literal_2_55 == RoundDiv(255 * 2 ^ LiteralScale, 100)

\* Mutant of Duty: the product is rounded to the nearest integer.
Duty_Rounded(percent) == RoundDiv(percent * 255, 100)

\* analogWrite(pin, percent * 2.55): percent is converted to double exactly,
\* the product is rounded to the significand width (to nearest, ties to
\* even), and the conversion to analogWrite's int parameter truncates.
Duty(percent) ==
  LET exact == percent * Literal_2_55
      sh == SigShift(exact)
      product == RoundDiv(exact, 2 ^ sh) * 2 ^ sh
  IN  product \div 2 ^ LiteralScale

\* Mutant of writeSpeedData: no default case, any other direction is backward.
writeSpeedData_NoDefault(direction, percent) ==
  [written |-> TRUE,
   duty |-> Duty(percent),
   pin1 |-> IF direction = MOVE_FORWARD THEN HIGH ELSE LOW,
   pin0 |-> IF direction = MOVE_FORWARD THEN LOW ELSE HIGH]

\* writeSpeedData(direction, percent): duty on SPEED_MOTOR_PIN2 and the
\* levels of SPEED_MOTOR_PIN1, SPEED_MOTOR_PIN0.
writeSpeedData(direction, percent) ==
  [written |-> TRUE,
   duty |-> Duty(percent),
   pin1 |-> IF direction = MOVE_FORWARD THEN HIGH ELSE LOW,
   pin0 |-> IF direction = MOVE_FORWARD THEN LOW
            ELSE IF direction = MOVE_BACKWARD THEN HIGH ELSE LOW]

\* writeTurnData(direction, percent): duty on TURN_MOTOR_PIN2 and the levels
\* of TURN_MOTOR_PIN1, TURN_MOTOR_PIN0.
writeTurnData(direction, percent) ==
  [written |-> TRUE,
   duty |-> Duty(percent),
   pin1 |-> IF direction = TURN_LEFT THEN HIGH ELSE LOW,
   pin0 |-> IF direction = TURN_LEFT THEN LOW
            ELSE IF direction = TURN_RIGHT THEN HIGH ELSE LOW]

(* ---------------------------------------------------------------- *)
(* setup()                                                           *)
(* ---------------------------------------------------------------- *)
\* Mutant of SetupTimer: the stagger is subtracted instead of added.
RECURSIVE SetupTimer_Decreasing(_, _)
SetupTimer_Decreasing(start, s) ==
  IF s = 0 THEN ULong(start + FIRST_PING_DELAY)
           ELSE ULong(SetupTimer_Decreasing(start, s - 1) - PING_INTERVAL)

\* pingTimer[] after setup() run at millis() = start.
RECURSIVE SetupTimer(_, _)
SetupTimer(start, s) ==
  IF s = 0 THEN ULong(start + FIRST_PING_DELAY)
           ELSE ULong(SetupTimer(start, s - 1) + PING_INTERVAL)

Init ==
  /\ boot = 0
  /\ now = boot
  /\ pingTimer = [s \in Sensors |-> SetupTimer(now, s)]
  /\ data = [s \in Sensors |-> 0]
  /\ currentSensor = 0
  /\ pc = "check"
  /\ i = 0
  /\ k = 0
  /\ armed = {}
  /\ req = [s \in Sensors |-> "idle"]
  /\ pingAt = [s \in Sensors |-> 0]
  /\ serial = <<>>
  /\ pins \in PinSamples
  /\ cmd = NoCmd
  /\ motor = NoMotor
  /\ nSel = [s \in Sensors |-> 0]
  /\ nReports = 0
  /\ fresh = [s \in Sensors |-> NoFresh]
  /\ nominal = TRUE
  /\ nSkips = 0
  /\ prompt = TRUE
  /\ sinceTick = NUM_SENSORS - 1
  /\ armedInPass = {}
  /\ span = MaxTime
  /\ mark = NoMark

(* ---------------------------------------------------------------- *)
(* loop(): the acquisition scheduler                                 *)
(* ---------------------------------------------------------------- *)
\* Sensors whose deadline has been reached at time t.
Due(t) == {s \in Sensors : t >= pingTimer[s]}

\* The ping of sensor s, if one is in flight, has timed out by time t.
Expired(s, t) == req[s] \in InFlight /\ ULong(t - pingAt[s] + ULONG_MODULUS) >= EchoWindow

\* One cycle of the three sensors.
Cycle == PING_INTERVAL * NUM_SENSORS

\* Clock skips followed in a run: MaxSkips in the runs of length MaxTime,
\* RecurSkips in the run of length RecurTime, none in the longer run.
SkipBudget == IF span > MaxTime THEN 0 ELSE IF span = RecurTime THEN RecurSkips ELSE MaxSkips

\* In the run of length RecurTime the state at the end of the pass in which
\* millis() first skipped is kept, to be compared with the later ones.
Marking == span = RecurTime
\* What the program and the sensors hold at the end of a pass of loop().
PassEnd == [now |-> now, pingTimer |-> pingTimer, data |-> data,
            currentSensor |-> currentSensor, armed |-> armed, req |-> req,
            pingAt |-> pingAt, nReports |-> nReports]

\* The pings a sensor is followed through in a run of the given length.
ArmsCap == MaxArms + (span - MaxTime) \div Cycle

\* Milliseconds from setup() to the time t read from millis(); the run is
\* shorter than one period of the counter.
Elapsed(t) == ULong(t - boot + ULONG_MODULUS)

\* i++ of the for loop; after the last sensor the motor part follows.
NextSensor ==
  IF i < NUM_SENSORS - 1 THEN /\ i' = i + 1
                              /\ pc' = "check"
                         ELSE /\ i' = 0
                              /\ pc' = "motors"

\* The earliest of the three deadlines.
EarliestDeadline ==
  CHOOSE t \in {pingTimer[s] : s \in Sensors} : \A s \in Sensors : t <= pingTimer[s]

\* The advance of millis() for each way it can have moved.
ClockAdvance(move) ==
  IF move = "none" THEN 0
  ELSE IF move = "skip" THEN SkipAhead
  ELSE IF now + 1 < EarliestDeadline - Margin THEN EarliestDeadline - Margin - now
  ELSE 1

\* if (millis() >= pingTimer[i]): millis() is read, having moved since it was
\* read last.
LoopCheck ==
  /\ pc = "check"
  /\ \E move \in ClockMoves :
       LET d == ClockAdvance(move)
       IN  /\ Elapsed(now) + d <= span
           /\ ULong(now + d) >= pingTimer[i] => nSel[i] < ArmsCap
           /\ move = "skip" =>
                /\ nSkips < SkipBudget
                /\ Cardinality(Due(ULong(now + d))) >= 2
           /\ now' = ULong(now + d)
           /\ nSkips' = IF move = "skip" THEN nSkips + 1 ELSE nSkips
           \* The three sensors are read in turn: each of them sees every
           \* value of millis() from Margin before a deadline on as long as
           \* two reads without an advance separate any two ticks.
           /\ prompt' = (prompt /\ (\/ move = "none"
                                    \/ move = "tick" /\ d > 1
                                    \/ move = "tick" /\ sinceTick >= NUM_SENSORS - 1))
           /\ sinceTick' = IF ~prompt' \/ move # "none" THEN 0
                           ELSE IF sinceTick < NUM_SENSORS - 1 THEN sinceTick + 1
                           ELSE sinceTick
  /\ nominal' = (nominal /\ Cardinality(Due(now')) <= 1)
  /\ IF now' >= pingTimer[i] THEN pc' = "advance" /\ i' = i
                             ELSE NextSensor
  /\ req' = [s \in Sensors |-> IF Expired(s, now') THEN "idle" ELSE req[s]]
  /\ pingAt' = [s \in Sensors |-> IF req'[s] = "idle" THEN 0 ELSE pingAt[s]]
  /\ UNCHANGED <<pingTimer, data, currentSensor, k, armed, serial,
                 nSel, nReports, fresh>>
  /\ UNCHANGED ioVars
  /\ UNCHANGED <<boot, armedInPass, span, mark>>

\* Mutant of NextDeadline: the deadline moves by one interval only.
NextDeadline_OneInterval(deadline) == ULong(deadline + PING_INTERVAL)

\* Mutant of NextDeadline: the next deadline is counted from the current time.
NextDeadline_FromNow(deadline) == ULong(now + PING_INTERVAL * NUM_SENSORS)

\* pingTimer[i] += PING_INTERVAL * NUM_SENSORS.
NextDeadline(deadline) == ULong(deadline + PING_INTERVAL * NUM_SENSORS)

\* Mutant of CycleComplete: the report is emitted on every arm of sensor 0.
CycleComplete_EveryZero == i = 0

\* if (i == 0 && currentSensor == NUM_SENSORS - 1).
CycleComplete == i = 0 /\ currentSensor = NUM_SENSORS - 1

\* Lines 109-110: advance the deadline, then decide whether to report.
LoopAdvance ==
  /\ pc = "advance"
  /\ pingTimer' = [pingTimer EXCEPT ![i] = NextDeadline(@)]
  /\ IF CycleComplete THEN /\ pc' = "print"
                           /\ nReports' = nReports + 1
                      ELSE /\ pc' = "stop"
                           /\ nReports' = nReports
  /\ k' = 0
  /\ UNCHANGED <<now, data, currentSensor, i, armed, req, pingAt, serial, nSel,
                 fresh, nominal, nSkips, prompt, sinceTick>>
  /\ UNCHANGED ioVars
  /\ UNCHANGED <<boot, armedInPass, span, mark>>

\* Mutant of FieldBytes: the separator is not written.
FieldBytes_NoSeparator(value) == PrintNumber(value)

\* The bytes of one field: Serial.print(data[i]); Serial.print("\t").
FieldBytes(value) == PrintNumber(value) \o <<TAB>>

\* One iteration of the for loop of writeDistanceData().
ReportField ==
  /\ pc = "print"
  /\ serial' = serial \o FieldBytes(data[k])
  /\ IF k < NUM_SENSORS - 1 THEN k' = k + 1 /\ pc' = "print"
                            ELSE k' = 0 /\ pc' = "println"
  /\ UNCHANGED <<now, pingTimer, data, currentSensor, i, armed, req, pingAt, nSel,
                 nReports, fresh, nominal, nSkips, prompt, sinceTick>>
  /\ UNCHANGED ioVars
  /\ UNCHANGED <<boot, armedInPass, span, mark>>

\* Serial.println(): Print::println() writes "\r\n".
LineEnd == <<CR, LF>>

ReportLineEnd ==
  /\ pc = "println"
  /\ serial' = serial \o LineEnd
  /\ pc' = "stop"
  /\ UNCHANGED <<now, pingTimer, data, currentSensor, i, k, armed, req, pingAt, nSel,
                 nReports, fresh, nominal, nSkips, prompt, sinceTick>>
  /\ UNCHANGED ioVars
  /\ UNCHANGED <<boot, armedInPass, span, mark>>

\* sonar[currentSensor].timer_stop(): Timer2's interrupt is disabled, whatever
\* sensor it was polling for.
TimerStop == {}

\* Mutant of LoopStop: the previous timer is not cancelled.
LoopStop_Omitted ==
  /\ pc = "stop"
  /\ pc' = "select"
  /\ UNCHANGED <<now, pingTimer, data, currentSensor, i, k, armed, req, pingAt,
                 serial, nSel, nReports, fresh, nominal, nSkips, prompt, sinceTick>>
  /\ UNCHANGED ioVars
  /\ UNCHANGED <<boot, armedInPass, span, mark>>

LoopStop ==
  /\ pc = "stop"
  /\ armed' = TimerStop
  /\ pc' = "select"
  /\ UNCHANGED <<now, pingTimer, data, currentSensor, i, k, req, pingAt, serial, nSel,
                 nReports, fresh, nominal, nSkips, prompt, sinceTick>>
  /\ UNCHANGED ioVars
  /\ UNCHANGED <<boot, armedInPass, span, mark>>

\* currentSensor = i.
LoopSelect ==
  /\ pc = "select"
  /\ currentSensor' = i
  /\ nSel' = [nSel EXCEPT ![i] = @ + 1]
  /\ pc' = "reset"
  /\ UNCHANGED <<now, pingTimer, data, i, k, armed, req, pingAt, serial, nReports,
                 fresh, nominal, nSkips, prompt, sinceTick>>
  /\ UNCHANGED ioVars
  /\ UNCHANGED <<boot, armedInPass, span, mark>>

\* Mutant of ResetReading: the reading is not zeroed.
ResetReading_Omitted(d, s) == d

\* data[currentSensor] = 0.
ResetReading(d, s) == [d EXCEPT ![s] = 0]

LoopReset ==
  /\ pc = "reset"
  /\ data' = ResetReading(data, currentSensor)
  /\ fresh' = [fresh EXCEPT ![currentSensor] = NoFresh]
  /\ pc' = "ping"
  /\ UNCHANGED <<now, pingTimer, currentSensor, i, k, armed, req, pingAt, serial, nSel,
                 nReports, nominal, nSkips, prompt, sinceTick>>
  /\ UNCHANGED ioVars
  /\ UNCHANGED <<boot, armedInPass, span, mark>>

\* sonar[currentSensor].ping_timer(echoCheck): when the sensor answers the
\* trigger, Timer2 is started and polls for it; when it does not (the driver's
\* ping_trigger() fails), the timer stays off.
LoopPing ==
  /\ pc = "ping"
  /\ \E started \in BOOLEAN :
       IF started
         THEN /\ armed' = armed \cup {currentSensor}
              /\ req' = [req EXCEPT ![currentSensor] = "waiting"]
              /\ pingAt' = [pingAt EXCEPT ![currentSensor] = now]
         ELSE /\ armed' = armed
              /\ req' = [req EXCEPT ![currentSensor] = "idle"]
              /\ pingAt' = [pingAt EXCEPT ![currentSensor] = 0]
  /\ NextSensor
  /\ UNCHANGED <<now, pingTimer, data, currentSensor, k, serial, nSel,
                 nReports, fresh, nominal, nSkips, prompt, sinceTick>>
  /\ UNCHANGED ioVars
  /\ armedInPass' = armedInPass \cup {currentSensor}
  /\ UNCHANGED <<boot, span, mark>>

(* ---------------------------------------------------------------- *)
(* loop(): command decode and actuation                              *)
(* ---------------------------------------------------------------- *)
\* Mutant of DecodeSpeed: the direction depends on the scheduler's state.
DecodeSpeed_UsesSensor(p) == <<currentSensor % 2, DecodePercent(readSpeedInput(p))>>

DecodeSpeed(p) == <<DecodeDirection(readSpeedInput(p)), DecodePercent(readSpeedInput(p))>>
DecodeTurn(p) == <<DecodeDirection(readTurnInput(p)), DecodePercent(readTurnInput(p))>>

\* Mutant of LoopMotors: the pass waits for the ping in flight to complete.
LoopMotors_AwaitsEcho ==
  /\ pc = "motors"
  /\ \A s \in Sensors : req[s] # "waiting"
  /\ cmd' = [speed |-> DecodeSpeed(pins), turn |-> DecodeTurn(pins)]
  /\ motor' = [speed |-> writeSpeedData(cmd'.speed[1], cmd'.speed[2]),
               turn |-> writeTurnData(cmd'.turn[1], cmd'.turn[2])]
  /\ pc' = "check"
  /\ i' = 0
  /\ UNCHANGED <<now, pingTimer, data, currentSensor, k, armed, req, pingAt,
                 serial, nSel, nReports, fresh, nominal, nSkips, prompt, sinceTick, pins>>
  /\ armedInPass' = {}
  /\ mark' = IF Marking /\ mark = NoMark /\ nSkips > 0 THEN <<PassEnd>> ELSE mark
  /\ UNCHANGED <<boot, span>>

\* Lines 121-138: both buses are read, decoded and actuated.
LoopMotors ==
  /\ pc = "motors"
  /\ cmd' = [speed |-> DecodeSpeed(pins), turn |-> DecodeTurn(pins)]
  /\ motor' = [speed |-> writeSpeedData(cmd'.speed[1], cmd'.speed[2]),
               turn |-> writeTurnData(cmd'.turn[1], cmd'.turn[2])]
  /\ pc' = "check"
  /\ i' = 0
  /\ UNCHANGED <<now, pingTimer, data, currentSensor, k, armed, req, pingAt,
                 serial, nSel, nReports, fresh, nominal, nSkips, prompt, sinceTick, pins>>
  /\ armedInPass' = {}
  /\ mark' = IF Marking /\ mark = NoMark /\ nSkips > 0 THEN <<PassEnd>> ELSE mark
  /\ UNCHANGED <<boot, span>>

(* ---------------------------------------------------------------- *)
(* echoCheck(): the Timer2 interrupt handler                         *)
(* ---------------------------------------------------------------- *)
\* sonar[s].check_timer(): TRUE exactly when sensor s has a ping in flight
\* whose echo has come back.
CheckTimer(s) == req[s] = "echoed"

\* check_timer() stops Timer2 when the ping has completed or has timed out.
CheckTimerStops(s) == req[s] # "waiting"

\* Mutant of EchoCheck: the result is stored at the index loop() is working on.
EchoCheck_WritesLoopIndex ==
  /\ armed # {}
  /\ IF CheckTimer(currentSensor)
       THEN \E t \in EchoTimes :
              /\ data' = [data EXCEPT ![i] = EchoDistance(t)]
              /\ fresh' = [fresh EXCEPT ![i] = <<EchoDistance(t)>>]
       ELSE UNCHANGED <<data, fresh>>
  /\ armed' = IF CheckTimerStops(currentSensor) THEN TimerStop ELSE armed
  /\ UNCHANGED <<now, pingTimer, currentSensor, pc, i, k, req, pingAt, serial, nSel,
                 nReports, nominal, nSkips, prompt, sinceTick>>
  /\ UNCHANGED ioVars
  /\ UNCHANGED <<boot, armedInPass, span, mark>>

\* Mutant of EchoCheck: the result is stored without asking check_timer().
EchoCheck_Unchecked ==
  /\ armed # {}
  /\ \E t \in EchoTimes :
       /\ data' = [data EXCEPT ![currentSensor] = EchoDistance(t)]
       /\ fresh' = [fresh EXCEPT ![currentSensor] = <<EchoDistance(t)>>]
  /\ armed' = IF CheckTimerStops(currentSensor) THEN TimerStop ELSE armed
  /\ UNCHANGED <<now, pingTimer, currentSensor, pc, i, k, req, pingAt, serial,
                 nSel, nReports, nominal, nSkips, prompt, sinceTick>>
  /\ UNCHANGED ioVars
  /\ UNCHANGED <<boot, armedInPass, span, mark>>

\* The handler runs only while Timer2's interrupt is enabled, and runs to
\* completion: loop() cannot preempt it.
EchoCheck ==
  /\ armed # {}
  /\ IF CheckTimer(currentSensor)
       THEN \E t \in EchoTimes :
              /\ data' = [data EXCEPT ![currentSensor] = EchoDistance(t)]
              /\ fresh' = [fresh EXCEPT ![currentSensor] = <<EchoDistance(t)>>]
       ELSE UNCHANGED <<data, fresh>>
  /\ armed' = IF CheckTimerStops(currentSensor) THEN TimerStop ELSE armed
  /\ UNCHANGED <<now, pingTimer, currentSensor, pc, i, k, req, pingAt, serial, nSel,
                 nReports, nominal, nSkips, prompt, sinceTick>>
  /\ UNCHANGED ioVars
  /\ UNCHANGED <<boot, armedInPass, span, mark>>

(* ---------------------------------------------------------------- *)
(* The sensors                                                       *)
(* ---------------------------------------------------------------- *)
\* The echo of sensor s's ping comes back (its echo line falls), whether or
\* not the scheduler has moved on to another sensor in the meantime.
EchoArrives(s) ==
  /\ req[s] = "waiting"
  /\ req' = [req EXCEPT ![s] = "echoed"]
  /\ UNCHANGED <<now, pingTimer, data, currentSensor, pc, i, k, armed, pingAt, serial,
                 nSel, nReports, fresh, nominal, nSkips, prompt, sinceTick>>
  /\ UNCHANGED ioVars
  /\ UNCHANGED <<boot, armedInPass, span, mark>>

\* The maximum echo time of sensor s's ping elapses.
PingExpires(s) ==
  /\ req[s] \in InFlight
  /\ req' = [req EXCEPT ![s] = "idle"]
  /\ pingAt' = [pingAt EXCEPT ![s] = 0]
  /\ UNCHANGED <<now, pingTimer, data, currentSensor, pc, i, k, armed, serial,
                 nSel, nReports, fresh, nominal, nSkips, prompt, sinceTick>>
  /\ UNCHANGED ioVars
  /\ UNCHANGED <<boot, armedInPass, span, mark>>

Loop ==
  \/ LoopCheck
  \/ LoopAdvance
  \/ ReportField
  \/ ReportLineEnd
  \/ LoopStop
  \/ LoopSelect
  \/ LoopReset
  \/ LoopPing
  \/ LoopMotors

Next ==
  \/ Loop
  \/ EchoCheck
  \/ \E s \in Sensors : EchoArrives(s)
  \/ \E s \in Sensors : PingExpires(s)

Spec == Init /\ [][Next]_vars

(* ---------------------------------------------------------------- *)
(* Specification for a run in which the clock skips in every cycle   *)
(* ---------------------------------------------------------------- *)
\* The state after setup() with no command on the input lines; the run is
\* followed for RecurTime milliseconds.
InitRecur ==
  /\ boot = 0
  /\ now = boot
  /\ pingTimer = [s \in Sensors |-> SetupTimer(now, s)]
  /\ data = [s \in Sensors |-> 0]
  /\ currentSensor = 0
  /\ pc = "check"
  /\ i = 0
  /\ k = 0
  /\ armed = {}
  /\ req = [s \in Sensors |-> "idle"]
  /\ pingAt = [s \in Sensors |-> 0]
  /\ serial = <<>>
  /\ pins = [n \in InputPins |-> LOW]
  /\ cmd = NoCmd
  /\ motor = NoMotor
  /\ nSel = [s \in Sensors |-> 0]
  /\ nReports = 0
  /\ fresh = [s \in Sensors |-> NoFresh]
  /\ nominal = TRUE
  /\ nSkips = 0
  /\ prompt = TRUE
  /\ sinceTick = NUM_SENSORS - 1
  /\ armedInPass = {}
  /\ span = RecurTime
  /\ mark = NoMark

SpecRecur == InitRecur /\ [][Next]_vars

(* ---------------------------------------------------------------- *)
(* Specification for a run from setup() up to the first wrap         *)
(* ---------------------------------------------------------------- *)
\* The state after setup(), which runs when millis() is 0; the run is
\* followed for LongTime milliseconds, in which the first deadline wraps.
InitLong ==
  /\ boot = 0
  /\ now = boot
  /\ pingTimer = [s \in Sensors |-> SetupTimer(now, s)]
  /\ data = [s \in Sensors |-> 0]
  /\ currentSensor = 0
  /\ pc = "check"
  /\ i = 0
  /\ k = 0
  /\ armed = {}
  /\ req = [s \in Sensors |-> "idle"]
  /\ pingAt = [s \in Sensors |-> 0]
  /\ serial = <<>>
  /\ pins = [n \in InputPins |-> LOW]
  /\ cmd = NoCmd
  /\ motor = NoMotor
  /\ nSel = [s \in Sensors |-> 0]
  /\ nReports = 0
  /\ fresh = [s \in Sensors |-> NoFresh]
  /\ nominal = TRUE
  /\ nSkips = 0
  /\ prompt = TRUE
  /\ sinceTick = NUM_SENSORS - 1
  /\ armedInPass = {}
  /\ span = LongTime
  /\ mark = NoMark

SpecLong == InitLong /\ [][Next]_vars

(* ---------------------------------------------------------------- *)
(* Specifications for the pure decode and actuation functions        *)
(* ---------------------------------------------------------------- *)
\* loop() reaches its decode part with any levels on the six input lines.
InitDecode ==
  /\ boot = 0
  /\ now = boot
  /\ pingTimer = [s \in Sensors |-> SetupTimer(now, s)]
  /\ data = [s \in Sensors |-> 0]
  /\ currentSensor = 0
  /\ pc = "motors"
  /\ i = 0
  /\ k = 0
  /\ armed = {}
  /\ req = [s \in Sensors |-> "idle"]
  /\ pingAt = [s \in Sensors |-> 0]
  /\ serial = <<>>
  /\ pins \in AllPinStates
  /\ cmd = NoCmd
  /\ motor = NoMotor
  /\ nSel = [s \in Sensors |-> 0]
  /\ nReports = 0
  /\ fresh = [s \in Sensors |-> NoFresh]
  /\ nominal = TRUE
  /\ nSkips = 0
  /\ prompt = TRUE
  /\ sinceTick = NUM_SENSORS - 1
  /\ armedInPass = {}
  /\ span = MaxTime
  /\ mark = NoMark

SpecDecode == InitDecode /\ [][LoopMotors]_vars

(* ---------------------------------------------------------------- *)
(* Specification for a run in which a deadline wraps                 *)
(* ---------------------------------------------------------------- *)
\* setup() runs WrapLead milliseconds before millis() wraps: the state of a
\* sketch that has been up for almost a full period of the counter.
InitWrap ==
  /\ boot = ULONG_MODULUS - WrapLead
  /\ now = boot
  /\ pingTimer = [s \in Sensors |-> SetupTimer(now, s)]
  /\ data = [s \in Sensors |-> 0]
  /\ currentSensor = 0
  /\ pc = "check"
  /\ i = 0
  /\ k = 0
  /\ armed = {}
  /\ req = [s \in Sensors |-> "idle"]
  /\ pingAt = [s \in Sensors |-> 0]
  /\ serial = <<>>
  /\ pins \in PinSamples
  /\ cmd = NoCmd
  /\ motor = NoMotor
  /\ nSel = [s \in Sensors |-> 0]
  /\ nReports = 0
  /\ fresh = [s \in Sensors |-> NoFresh]
  /\ nominal = TRUE
  /\ nSkips = 0
  /\ prompt = TRUE
  /\ sinceTick = NUM_SENSORS - 1
  /\ armedInPass = {}
  /\ span = MaxTime
  /\ mark = NoMark

SpecWrap == InitWrap /\ [][Next]_vars

Directions == 0 .. MaxDir
Commands == Directions \X Percents

\* The actuation functions are about to be called with any arguments.
InitActuate ==
  /\ boot = 0
  /\ now = boot
  /\ pingTimer = [s \in Sensors |-> SetupTimer(now, s)]
  /\ data = [s \in Sensors |-> 0]
  /\ currentSensor = 0
  /\ pc = "call"
  /\ i = 0
  /\ k = 0
  /\ armed = {}
  /\ req = [s \in Sensors |-> "idle"]
  /\ pingAt = [s \in Sensors |-> 0]
  /\ serial = <<>>
  /\ pins = [n \in InputPins |-> LOW]
  /\ cmd \in [speed : Commands, turn : Commands]
  /\ motor = NoMotor
  /\ nSel = [s \in Sensors |-> 0]
  /\ nReports = 0
  /\ fresh = [s \in Sensors |-> NoFresh]
  /\ nominal = TRUE
  /\ nSkips = 0
  /\ prompt = TRUE
  /\ sinceTick = NUM_SENSORS - 1
  /\ armedInPass = {}
  /\ span = MaxTime
  /\ mark = NoMark

\* A call writeSpeedData(cmd.speed).
CallWriteSpeed ==
  /\ pc = "call"
  /\ motor' = [motor EXCEPT !.speed = writeSpeedData(cmd.speed[1], cmd.speed[2])]
  /\ UNCHANGED <<pc, pins, cmd>>
  /\ UNCHANGED schedVars

\* A call writeTurnData(cmd.turn).
CallWriteTurn ==
  /\ pc = "call"
  /\ motor' = [motor EXCEPT !.turn = writeTurnData(cmd.turn[1], cmd.turn[2])]
  /\ UNCHANGED <<pc, pins, cmd>>
  /\ UNCHANGED schedVars

SpecActuate == InitActuate /\ [][CallWriteSpeed \/ CallWriteTurn]_vars

(* ---------------------------------------------------------------- *)
(* Derived quantities used by the properties                         *)
(* ---------------------------------------------------------------- *)
\* Statements of loop() between timer_stop() and the return of ping_timer().
RearmSteps == {"select", "reset", "ping"}
\* Statements of writeDistanceData().
ReportSteps == {"print", "println"}

\* Calls of ping_timer() on sensor s that loop() has made.
PingsDone(s) == nSel[s] - (IF pc \in {"reset", "ping"} /\ i = s THEN 1 ELSE 0)
\* Resets of data[s] to 0 that loop() has made.
ResetsDone(s) == nSel[s] - (IF pc = "reset" /\ i = s THEN 1 ELSE 0)
\* No sensor has been made currentSensor by loop() yet.
NeverArmed == \A s \in Sensors : nSel[s] = 0

(* ---------------------------------------------------------------- *)
(* Properties                                                        *)
(* ---------------------------------------------------------------- *)

\* C1: in every reachable state at most one sensor is armed, and the armed
\* sensor, if there is one, is currentSensor.
C1_OneArmedIsCurrent ==
  /\ Cardinality(armed) <= 1
  /\ armed \subseteq {currentSensor}

\* C1 witness: sensor 2 is armed after sensors 0 and 1 have had their slots.
C1_Witness ==
  /\ armed = {2}
  /\ currentSensor = 2
  /\ nSel[0] >= 1 /\ nSel[1] >= 1

\* C2: under nominal timing the n-th report is written after the n-th arm of
\* sensor 2 and before the (n+1)-th reset of data[0], in the pass that re-arms
\* sensor 0 while currentSensor is 2; so there is exactly one report per
\* cycle and none before the first cycle is complete.
C2_ReportOncePerCycle ==
  nominal =>
    /\ nReports <= PingsDone(2)
    /\ ResetsDone(0) <= nReports + 1
    /\ pc \in ReportSteps =>
         /\ i = 0
         /\ currentSensor = NUM_SENSORS - 1
         /\ PingsDone(2) = nReports
         /\ ResetsDone(0) = nReports

\* C2 witness: the second report is being written under nominal timing.
C2_Witness ==
  /\ nominal
  /\ pc = "println"
  /\ nReports = 2

\* C3: data[s] changes only by loop()'s reset of the current sensor or by
\* echoCheck() storing a completed ping of the armed current sensor; an echo
\* that comes back for a sensor that is no longer current changes no reading.
C3_LateCompletionDropped ==
  [][\A s \in Sensors :
       data'[s] # data[s] =>
         \/ pc = "reset" /\ s = currentSensor /\ data'[s] = 0
         \/ /\ s = currentSensor
            /\ s \in armed
            /\ req[s] = "echoed"
            /\ pc' = pc]_vars

\* C3 witness: the echo of a superseded sensor has come back and was not
\* stored, while the handler is live for the current sensor.
C3_Witness ==
  \E s \in Sensors :
    /\ s # currentSensor
    /\ req[s] = "echoed"
    /\ fresh[s] = NoFresh
    /\ data[s] = 0
    /\ armed = {currentSensor}

\* C4: between timer_stop() and ping_timer() the handler cannot run, the
\* sensor being re-armed is currentSensor from the reset on, and when
\* ping_timer() is called its reading is 0 and no completion has been stored
\* for the new slot.
C4_RearmAtomic ==
  /\ pc \in RearmSteps => armed = {} /\ ~ENABLED EchoCheck
  /\ pc \in {"reset", "ping"} => currentSensor = i
  /\ pc = "ping" => data[i] = 0 /\ fresh[i] = NoFresh

\* C4 witness: sensor 1 is about to be pinged while the ping of sensor 0 is
\* still in flight.
C4_Witness ==
  /\ pc = "ping"
  /\ i = 1
  /\ req[0] \in InFlight

\* C5: under nominal timing the first sensor armed is 0 and each sensor armed
\* after it is the cyclic successor of the one armed before.
C5_CyclicOrder ==
  (nominal /\ pc = "select") =>
    IF NeverArmed THEN i = 0
                  ELSE i = (currentSensor + 1) % NUM_SENSORS

\* C5 witness: sensor 0 follows sensor 2 under nominal timing.
C5_Witness ==
  /\ nominal
  /\ pc = "select"
  /\ i = 0
  /\ currentSensor = NUM_SENSORS - 1

\* Times pingTimer[s] has been advanced by loop().
Advanced(s) ==
  nSel[s] + (IF pc \in {"print", "println", "stop", "select"} /\ i = s THEN 1 ELSE 0)
\* Statements of loop() inside the body of if (millis() >= pingTimer[i]),
\* after the deadline has been advanced.
ArmSteps == {"print", "println", "stop", "select", "reset", "ping"}

\* C6: deadlines only ever move by PING_INTERVAL * NUM_SENSORS from the
\* deadline before, and when loop() polls every sensor at every clock tick the
\* n-th arm of sensor s happens exactly at 75 + s * PING_INTERVAL +
\* (n - 1) * 3 * PING_INTERVAL after setup(): the same sensor is armed every
\* 3 * PING_INTERVAL and successive sensors PING_INTERVAL apart.
C6_ArmSpacing ==
  /\ \A s \in Sensors :
       pingTimer[s] = FIRST_PING_DELAY + s * PING_INTERVAL
                        + Advanced(s) * (3 * PING_INTERVAL)
  /\ (prompt /\ pc \in ArmSteps) =>
       now = FIRST_PING_DELAY + i * PING_INTERVAL
               + (Advanced(i) - 1) * (3 * PING_INTERVAL)

\* C6 witness: with prompt polling sensor 0 is pinged a second time, 99 ms
\* after its first ping at 75 ms.
C6_Witness ==
  /\ prompt
  /\ pc = "ping"
  /\ i = 0
  /\ nSel[0] = 2
  /\ now = FIRST_PING_DELAY + 3 * PING_INTERVAL

(* Reading the serial stream back, independently of how it was printed. *)
\* seq cut at every sep: the pieces before each sep, then what follows the last.
RECURSIVE SplitOn(_, _)
SplitOn(seq, sep) ==
  IF seq = <<>> THEN << <<>> >>
  ELSE LET rest == SplitOn(Tail(seq), sep)
       IN  IF Head(seq) = sep THEN << <<>> >> \o rest
           ELSE << <<Head(seq)>> \o rest[1] >> \o Tail(rest)

Digits == ASCII_ZERO .. (ASCII_ZERO + 9)
\* f is a decimal numeral without leading zeros.
IsNumeral(f) ==
  /\ Len(f) >= 1
  /\ \A n \in 1 .. Len(f) : f[n] \in Digits
  /\ Len(f) > 1 => f[1] # ASCII_ZERO

RECURSIVE NumeralValue(_)
NumeralValue(f) ==
  IF f = <<>> THEN 0
  ELSE NumeralValue(SubSeq(f, 1, Len(f) - 1)) * 10 + (f[Len(f)] - ASCII_ZERO)

\* The stream cut at every line feed.
SerialChunks == SplitOn(serial, LF)
\* value can be what the report shows for sensor s: its reading, or 0 when
\* the current sensor's ping completed after its field was printed.
Reported(s, value) == value = data[s] \/ (s = currentSensor /\ value = 0)

\* Every line of the stream is three numerals, each followed by a TAB, then
\* lineEnd and a line feed; the line being written is a prefix of such a
\* line; the fields show the readings; nothing else is in the stream.
ReportFormat(lineEnd) ==
  LET chunks == SerialChunks
      done == Len(chunks) - 1
      partial == chunks[Len(chunks)]
      parts(line) == SplitOn(line, TAB)
  IN  /\ done = nReports - (IF pc \in ReportSteps THEN 1 ELSE 0)
      /\ \A n \in 1 .. done :
           /\ Len(parts(chunks[n])) = NUM_SENSORS + 1
           /\ \A m \in 1 .. NUM_SENSORS : IsNumeral(parts(chunks[n])[m])
           /\ parts(chunks[n])[NUM_SENSORS + 1] = lineEnd
      /\ IF pc \in ReportSteps
           THEN LET written == IF pc = "print" THEN k ELSE NUM_SENSORS
                IN  /\ Len(parts(partial)) = written + 1
                    /\ parts(partial)[written + 1] = <<>>
                    /\ \A m \in 1 .. written :
                         /\ IsNumeral(parts(partial)[m])
                         /\ Reported(m - 1, NumeralValue(parts(partial)[m]))
           ELSE partial = <<>>
      /\ (pc = "stop" /\ CycleComplete) =>
           /\ done >= 1
           /\ \A m \in 1 .. NUM_SENSORS :
                Reported(m - 1, NumeralValue(parts(chunks[done])[m]))

\* C7 as amended: each report is <data[0]> TAB <data[1]> TAB <data[2]> TAB
\* CR LF, the fields decimal and in sensor order, and no other byte is ever
\* written to the serial link.
C7_ReportLineCRLF == ReportFormat(<<CR>>)

\* C7 as stated: each report ends with a single line feed after the last TAB.
C7_ReportLineLF == ReportFormat(<<>>)

\* C7 witness: a first report of three zero readings and a second report
\* showing a measured distance have been written.
C7_Witness ==
  /\ pc = "stop"
  /\ nReports = 2
  /\ Len(serial) > 10
  /\ SubSeq(serial, 1, 8) = <<ASCII_ZERO, TAB, ASCII_ZERO, TAB, ASCII_ZERO, TAB, CR, LF>>
  /\ data[1] = 122

Bit(level) == IF level = HIGH THEN 1 ELSE 0
PercentTable == <<0, 33, 67, 100>>

\* C8: each bus reads as 4 * line2 + 2 * line1 + line0, and loop() decodes it
\* to direction = line2 and percent = the table entry of 2 * line1 + line0.
C8_DecodeTable ==
  LET s2 == Bit(pins["SPEED_INPUT2"])
      s1 == Bit(pins["SPEED_INPUT1"])
      s0 == Bit(pins["SPEED_INPUT0"])
      t2 == Bit(pins["TURN_INPUT2"])
      t1 == Bit(pins["TURN_INPUT1"])
      t0 == Bit(pins["TURN_INPUT0"])
  IN  /\ readSpeedInput(pins) = 4 * s2 + 2 * s1 + s0
      /\ readTurnInput(pins) = 4 * t2 + 2 * t1 + t0
      /\ readSpeedInput(pins) \in 0 .. 7
      /\ readTurnInput(pins) \in 0 .. 7
      /\ motor.speed.written => cmd.speed = <<s2, PercentTable[2 * s1 + s0 + 1]>>
      /\ motor.turn.written => cmd.turn = <<t2, PercentTable[2 * t1 + t0 + 1]>>

\* C8 witness: code 5 on the speed bus and code 2 on the turn bus were decoded.
C8_Witness ==
  /\ motor.speed.written
  /\ motor.turn.written
  /\ cmd.speed = <<1, 33>>
  /\ cmd.turn = <<0, 67>>

\* C9: a recognised direction drives exactly one direction line HIGH, the two
\* directions of an actuator giving opposite patterns; any other direction
\* drives both lines LOW.
C9_NeutralFallback ==
  /\ motor.speed.written =>
       LET d == cmd.speed[1]
           m == motor.speed
       IN  /\ d = MOVE_FORWARD => m.pin1 = HIGH /\ m.pin0 = LOW
           /\ d = MOVE_BACKWARD => m.pin1 = LOW /\ m.pin0 = HIGH
           /\ d \notin {MOVE_FORWARD, MOVE_BACKWARD} => m.pin1 = LOW /\ m.pin0 = LOW
  /\ motor.turn.written =>
       LET d == cmd.turn[1]
           m == motor.turn
       IN  /\ d = TURN_LEFT => m.pin1 = HIGH /\ m.pin0 = LOW
           /\ d = TURN_RIGHT => m.pin1 = LOW /\ m.pin0 = HIGH
           /\ d \notin {TURN_LEFT, TURN_RIGHT} => m.pin1 = LOW /\ m.pin0 = LOW

\* C9 witness: both actuation functions were called with an unrecognised
\* direction.
C9_Witness ==
  /\ motor.speed.written
  /\ motor.turn.written
  /\ cmd.speed[1] = 2
  /\ cmd.turn[1] = MaxDir

\* C10: every reading is 0 or the distance stored by a completion since the
\* sensor's last reset, so a report never shows a value of an earlier slot;
\* and a sensor is pinged only once its deadline has been reached.
C10_FreshOrZero ==
  /\ \A s \in Sensors :
       data[s] = IF fresh[s] = NoFresh THEN 0 ELSE fresh[s][1]
  /\ pc \in ArmSteps => ULong(now + 3 * PING_INTERVAL) >= pingTimer[i]

\* C10 witness: the second report is about to show 0 for sensor 1, which got
\* no echo in its latest slot, after the first report showed 122 for it.
C10_Witness ==
  /\ pc = "print"
  /\ k = 1
  /\ nReports = 2
  /\ data[1] = 0
  /\ fresh[1] = NoFresh
  /\ NumeralValue(SplitOn(SerialChunks[1], TAB)[2]) = 122

\* Sensor s was the last one loop() looked at, and it is not being re-armed.
JustPassed(s) == (pc = "check" /\ i = s + 1) \/ (pc = "motors" /\ s = NUM_SENSORS - 1)

\* A pass of loop() begins in the state kept in mark moved on by one cycle:
\* every time it holds is one cycle later and everything else is the same.
Recurred ==
  /\ mark # NoMark
  /\ pc = "check"
  /\ i = 0
  /\ now = mark[1].now + Cycle
  /\ \A s \in Sensors : pingTimer[s] = mark[1].pingTimer[s] + Cycle
  /\ data = mark[1].data
  /\ currentSensor = mark[1].currentSensor
  /\ armed = mark[1].armed
  /\ req = mark[1].req
  /\ \A s \in Sensors :
       pingAt[s] = IF req[s] \in InFlight THEN mark[1].pingAt[s] + Cycle ELSE mark[1].pingAt[s]

\* Reports written since the state kept in mark.
ReportsSinceMark == nReports - mark[1].nReports

C12_OutputsFromPinsOnly ==
  [][/\ (motor.speed.written /\ motor.turn.written /\ pins' = pins) => motor' = motor
     /\ (pc = "motors" /\ pc' # pc) =>
          /\ motor'.speed.written /\ motor'.turn.written
          /\ UNCHANGED <<currentSensor, pingTimer, data>>]_vars

\* C12 witness: a pass decodes code 5 on the speed bus and code 3 on the turn
\* bus after the scheduler has moved on to sensor 1 and a reading was stored.
C12_Witness ==
  /\ pc = "check"
  /\ i = 0
  /\ currentSensor = 1
  /\ data[0] = 122
  /\ nSel[1] = 2
  /\ motor.speed = [written |-> TRUE, duty |-> 84, pin1 |-> LOW, pin0 |-> HIGH]
  /\ motor.turn = [written |-> TRUE, duty |-> 255, pin1 |-> LOW, pin0 |-> HIGH]

\* The lowest and the highest sensor pinged in the current pass.
LowestInPass == CHOOSE a \in armedInPass : \A b \in armedInPass : a <= b
HighestInPass == CHOOSE a \in armedInPass : \A b \in armedInPass : a >= b
\* The scheduler part of a pass is over and found several deadlines due.
SeveralDueInPass == pc = "motors" /\ Cardinality(armedInPass) >= 2

\* Sensors are pinged in increasing id order within a pass.
IncreasingInPass == pc \in ArmSteps => \A a \in armedInPass : a < i

\* C13 as amended: when several deadlines are due in one pass they are
\* processed in increasing id order and the highest id wins: after the pass
\* currentSensor is the highest due id, only that sensor can be armed, and
\* the request of every lower id has been cancelled by timer_stop().
C13_HighestIdWins ==
  /\ IncreasingInPass
  /\ SeveralDueInPass =>
       /\ currentSensor = HighestInPass
       /\ armed \subseteq {HighestInPass}
       /\ \A a \in armedInPass \ {HighestInPass} : a \notin armed

\* C13 as stated: after such a pass currentSensor is the lowest due id and
\* that sensor is the one left armed.
C13_LowestIdWins ==
  /\ IncreasingInPass
  /\ SeveralDueInPass =>
       /\ currentSensor = LowestInPass
       /\ armed \subseteq {LowestInPass}

\* C13 witness: a clock skip made sensors 0 and 1 due in one pass; sensor 1 is
\* left armed and the ping of sensor 0 is still in flight, superseded.
C13_Witness ==
  /\ pc = "motors"
  /\ armedInPass = {0, 1}
  /\ armed = {1}
  /\ req[0] = "waiting"

\* loop() is about to make sensor 0 current again.
RearmOfFirst == pc = "select" /\ i = 0 /\ nSel[0] >= 1

\* C14 as amended: a re-arm of sensor 0 is preceded by a report exactly when
\* currentSensor is the last sensor at that moment; so there is at most one
\* report per re-arm of sensor 0, exactly one under nominal timing, and none
\* when a clock skip makes sensor 0 due while another sensor is current.
C14_ReportIffLastWasCurrent ==
  /\ [](RearmOfFirst => nReports <= nSel[0])
  /\ []((RearmOfFirst /\ nominal) => nReports = nSel[0])
  /\ [][(pc = "advance" /\ i = 0 /\ pc' # pc) =>
          IF currentSensor = NUM_SENSORS - 1
            THEN pc' = "print" /\ nReports' = nReports + 1
            ELSE pc' = "stop" /\ nReports' = nReports]_vars

\* C14 as stated: every re-arm of sensor 0 but the first is preceded by
\* exactly one report, so reports and earlier arms of sensor 0 pair up.
C14_ReportBeforeEveryRearm == RearmOfFirst => nReports = nSel[0]

\* C14 witness: a clock skip made sensors 2 and 0 due at once; sensor 0 is
\* re-armed while sensor 1 is current, and no report has been written.
C14_Witness ==
  /\ RearmOfFirst
  /\ currentSensor = 1
  /\ nSel[0] = 1
  /\ nReports = 0
  /\ serial = <<>>

\* Duty for each intensity level 0..3.
DutyTable == <<0, 84, 170, 255>>
\* The code on three lines, its direction bit and its intensity level.
BusCode(l2, l1, l0) == 4 * Bit(pins[l2]) + 2 * Bit(pins[l1]) + Bit(pins[l0])
DirectionBit(code) == code \div 4
Level(code) == code % 4

\* C15: for every code 0..7 on either bus the actuation function is called
\* with direction in {0, 1} and percent in {0, 33, 67, 100}; the duty is
\* 0, 84, 170 or 255 according to the level, the direction lines carry the
\* pattern of bit 2 and are never both LOW; code 0 on the turn bus gives duty
\* 0 with the TURN_RIGHT pattern and code 5 duty 84 with the TURN_LEFT one.
C15_RecognisedPatternAndDuty ==
  LET sc == BusCode("SPEED_INPUT2", "SPEED_INPUT1", "SPEED_INPUT0")
      tc == BusCode("TURN_INPUT2", "TURN_INPUT1", "TURN_INPUT0")
      sm == motor.speed
      tm == motor.turn
  IN  /\ motor.speed.written =>
           /\ cmd.speed[1] \in {0, 1} /\ cmd.speed[2] \in Percents
           /\ sm.duty = DutyTable[Level(sc) + 1]
           /\ sm.duty \in 0 .. 255
           /\ DirectionBit(sc) = MOVE_FORWARD => sm.pin1 = HIGH /\ sm.pin0 = LOW
           /\ DirectionBit(sc) = MOVE_BACKWARD => sm.pin1 = LOW /\ sm.pin0 = HIGH
           /\ ~(sm.pin1 = LOW /\ sm.pin0 = LOW)
      /\ motor.turn.written =>
           /\ cmd.turn[1] \in {0, 1} /\ cmd.turn[2] \in Percents
           /\ tm.duty = DutyTable[Level(tc) + 1]
           /\ tm.duty \in 0 .. 255
           /\ DirectionBit(tc) = TURN_LEFT => tm.pin1 = HIGH /\ tm.pin0 = LOW
           /\ DirectionBit(tc) = TURN_RIGHT => tm.pin1 = LOW /\ tm.pin0 = HIGH
           /\ ~(tm.pin1 = LOW /\ tm.pin0 = LOW)
           /\ tc = 0 => tm = [written |-> TRUE, duty |-> 0, pin1 |-> LOW, pin0 |-> HIGH]
           /\ tc = 5 => tm = [written |-> TRUE, duty |-> 84, pin1 |-> HIGH, pin0 |-> LOW]

\* C15 witness: code 5 on the turn bus and code 7 on the speed bus have been
\* decoded and driven.
C15_Witness ==
  /\ pins["TURN_INPUT2"] = HIGH /\ pins["TURN_INPUT1"] = LOW /\ pins["TURN_INPUT0"] = HIGH
  /\ \A n \in {"SPEED_INPUT2", "SPEED_INPUT1", "SPEED_INPUT0"} : pins[n] = HIGH
  /\ motor.turn.written /\ motor.turn.duty = 84 /\ motor.turn.pin1 = HIGH
  /\ motor.speed.written /\ motor.speed.duty = 255 /\ motor.speed.pin0 = HIGH

\* C16: a run of echoCheck(), wherever it preempts loop(), leaves
\* currentSensor, pingTimer[] and every data[j] with j # currentSensor as they
\* were, and does not move loop().
C16_HandlerFrame ==
  [][EchoCheck =>
       /\ currentSensor' = currentSensor
       /\ pingTimer' = pingTimer
       /\ \A j \in Sensors \ {currentSensor} : data'[j] = data[j]
       /\ pc' = pc /\ i' = i]_vars

\* C16 witness: the handler stored a reading for sensor 2 between the
\* printing of its field, which shows 0, and the end of the report line, while
\* sensor 0's deadline had already been advanced.
C16_Witness ==
  /\ pc = "println"
  /\ currentSensor = 2
  /\ data[2] = 122
  /\ SubSeq(serial, Len(serial) - 1, Len(serial)) = <<ASCII_ZERO, TAB>>
  /\ Advanced(0) = 2

\* x is a multiple of the cycle length PING_INTERVAL * NUM_SENSORS.
WholeCycles(x) == ((x % (PING_INTERVAL * NUM_SENSORS)) + PING_INTERVAL * NUM_SENSORS)
                    % (PING_INTERVAL * NUM_SENSORS) = 0

\* No deadline has wrapped since setup(): the run is shorter than one period
\* of the counter, so a deadline below millis() at setup() has wrapped.
NoDeadlineWrapped == \A s \in Sensors : pingTimer[s] >= boot
\* pingTimer[s] - pingTimer[0], less the stagger, with wraps of the counter added.
StaggerError(s, wraps) == pingTimer[s] - pingTimer[0] - s * PING_INTERVAL + wraps * ULONG_MODULUS

Slot(s, n) == FIRST_PING_DELAY + s * PING_INTERVAL + n * (NUM_SENSORS * PING_INTERVAL)
\* The slot whose deadline loop() found due when it entered the re-arm of
\* sensor i.
DueSlot == Slot(i, Advanced(i) - 1)

\* No sensor is re-armed before its slot has begun.
NoEarlyRearm == pc \in ArmSteps => Elapsed(now) >= DueSlot
\* No sensor is passed over once its next slot has begun.
NoMissedSlot == \A s \in Sensors : JustPassed(s) => Elapsed(now) < Slot(s, Advanced(s))

\* C18: with millis() and pingTimer[] wrapping modulo 2^ClockBits, the
\* schedule is kept across the wrap: no sensor is re-armed before its slot,
\* 3*PING_INTERVAL after its previous one, has begun, and none is passed over
\* once its slot has begun.
C18_SchedulePreserved == NoEarlyRearm /\ NoMissedSlot

\* The pins of the three ranging sensors and of the six command inputs.
SonarPins == {SonarPin(s) : s \in Sensors}
CommandInputPins == SpeedInputPins \cup TurnInputPins
\* The lines driven by the actuation calls made so far.
SpeedDriven == IF motor.speed.written THEN SpeedMotorPins ELSE {}
TurnDriven == IF motor.turn.written THEN TurnMotorPins ELSE {}

\* C19: an actuation call writes only its own actuator's three lines, which
\* belong neither to a ranging sensor, nor to the other actuator, nor to a
\* command input; the sensors' pins and the command inputs are disjoint too.
C19_ActuatorsDriveOwnLinesOnly ==
  /\ Cardinality(SpeedDriven) \in {0, 3}
  /\ Cardinality(TurnDriven) \in {0, 3}
  /\ SpeedDriven \cap TurnDriven = {}
  /\ (SpeedDriven \cup TurnDriven) \cap CommandInputPins = {}
  /\ SonarPins \cap CommandInputPins = {}
  /\ \A s \in Sensors : SonarPin(s) \notin SpeedDriven \cup TurnDriven

====
